---- MODULE Spec2Model ----
(***************************************************************************)
(* Matrix_cpp: the Matrix2D / Matrix4D containers, their coordinate        *)
(* addressing and the Matrix4D text-file codec.                            *)
(*                                                                         *)
(* C++ vectors are modelled as functions over 0..n-1, so an index of the   *)
(* model is the index of the source.  A text line is a sequence of         *)
(* one-character strings.  The element type T is a small unsigned integer. *)
(***************************************************************************)
EXTENDS Integers, Sequences, FiniteSets, TLC

MaxDim == 2
    \* largest size of the first two axes handed to a constructor or binary file
MaxDepth == 1
    \* largest size of the third and fourth axes handed to them
MaxVal == 1
    \* element values are 0..MaxVal
MaxLines == 6
    \* lines of a text file written by the environment
MaxProbeLen == 4
    \* length of the lines handed to the header tests alone
PrintWidth == 8
    \* default column width of Matrix4D::print

Values == 0..MaxVal

AxisSizes == 0..MaxDim

DepthSizes == 0..MaxDepth

---------------------------------------------------------------------------
(* Vectors                                                                 *)

Vec(n, x) == [i \in 0..(n - 1) |-> x]

Size(f) == Cardinality(DOMAIN f)

PushBack(f, x) == [i \in 0..Size(f) |-> IF i < Size(f) THEN f[i] ELSE x]

\* an append that puts the new elements in front
Concat_in_front(f, g) ==
    [i \in 0..(Size(f) + Size(g) - 1) |->
        IF i < Size(g) THEN g[i] ELSE f[i - Size(g)]]

Concat(f, g) ==
    [i \in 0..(Size(f) + Size(g) - 1) |->
        IF i < Size(f) THEN f[i] ELSE g[i - Size(f)]]

\* product of dim[lo..hi]
RECURSIVE Prod(_, _, _)
Prod(dim, lo, hi) == IF lo > hi THEN 1 ELSE dim[lo] * Prod(dim, lo + 1, hi)

---------------------------------------------------------------------------
(* Text <-> number conversions (operator<< and operator>> of the streams)  *)

DigitChars == <<"0", "1", "2", "3", "4", "5", "6", "7", "8", "9">>

IsDigit(ch) == \E d \in 1..10 : DigitChars[d] = ch

DigitOf(ch) == (CHOOSE d \in 1..10 : DigitChars[d] = ch) - 1

\* stream << n for an unsigned integer
RECURSIVE ToChars(_)
ToChars(n) ==
    IF n < 10 THEN <<DigitChars[n + 1]>>
    ELSE ToChars(n \div 10) \o <<DigitChars[(n % 10) + 1]>>

\* std::setw(width) with std::ios::left: pad on the right, never truncate
RECURSIVE PadLeftAligned(_, _)
PadLeftAligned(s, width) ==
    IF Len(s) >= width THEN s ELSE PadLeftAligned(s \o <<" ">>, width)

\* while(buffer_ss >> buffer_T) on one line: the values read, and whether the
\* extraction stopped on a character that is no number (fail and not eof)
RECURSIVE ReadTokens(_, _, _, _, _)
ReadTokens(s, i, vals, cur, in_num) ==
    IF i > Len(s)
    THEN [vals |-> IF in_num THEN PushBack(vals, cur) ELSE vals, bad |-> FALSE]
    ELSE IF IsDigit(s[i])
    THEN ReadTokens(s, i + 1, vals, (IF in_num THEN cur * 10 ELSE 0) + DigitOf(s[i]), TRUE)
    ELSE IF in_num
    THEN ReadTokens(s, i, PushBack(vals, cur), 0, FALSE)
    ELSE IF s[i] = " "
    THEN ReadTokens(s, i + 1, vals, 0, FALSE)
    ELSE [vals |-> vals, bad |-> TRUE]

ParseLine(s) == ReadTokens(s, 1, <<>>, 0, FALSE)


---------------------------------------------------------------------------
(* The generic Matrix<T> base class (Matrix.hpp)                           *)

\* Matrix<T>::compute_dim_product : _dim_prod[i] is the product of the sizes
\* of the axes after i
compute_dim_product(dim) ==
    [i \in DOMAIN dim |-> Prod(dim, i + 1, Size(dim) - 1)]

\* Matrix<T>::Matrix(dim, value)
Matrix(dim, value) ==
    [dim      |-> dim,
     data     |-> Vec(Prod(dim, 0, Size(dim) - 1), value),
     dim_prod |-> compute_dim_product(dim)]

\* Matrix<T>::convert_to_offset(coord)
RECURSIVE SumProd(_, _, _)
SumProd(coord, dim_prod, i) ==
    IF i >= Size(coord) THEN 0
    ELSE coord[i] * dim_prod[i] + SumProd(coord, dim_prod, i + 1)

base_convert_to_offset(m, coord) == SumProd(coord, m.dim_prod, 0)

\* the validation of the checked accessors
InRange(m, coord) == \A i \in DOMAIN coord : coord[i] < m.dim[i]

\* Matrix<T>::get(coord): the element, or -1 for std::out_of_range
base_get(m, coord) ==
    IF InRange(m, coord) THEN m.data[base_convert_to_offset(m, coord)] ELSE -1

\* Matrix<T>::set(coord, value): the new _data
base_set(m, coord, value) ==
    IF InRange(m, coord)
    THEN [m.data EXCEPT ![base_convert_to_offset(m, coord)] = value]
    ELSE m.data

---------------------------------------------------------------------------
(* Matrix4D : offset tables and accessors                                  *)

Coord4(dim1, dim2, dim3, dim4) ==
    [i \in 0..3 |-> CASE i = 0 -> dim1 [] i = 1 -> dim2 [] i = 2 -> dim3 [] OTHER -> dim4]

\* for(i = 0; i < n; i++) table[i] = i * stride : the table after the loop,
\* and whether the loop wrote past the end of the table
FillOffsets(table, n, stride) ==
    [table |-> [i \in DOMAIN table |-> IF i < n THEN i * stride ELSE table[i]],
     oob   |-> n > Size(table)]

compute_dim1_offsets(m) == FillOffsets(m.dim1_offsets, m.dim[1], m.dim_prod[1])

compute_dim2_offsets(m) == FillOffsets(m.dim2_offsets, m.dim[0], m.dim_prod[0])

compute_dim3_offsets(m) == FillOffsets(m.dim3_offsets, m.dim[2], m.dim_prod[2])

compute_dim4_offsets(m) == FillOffsets(m.dim4_offsets, m.dim[3], m.dim_prod[3])

\* the four compute_dimN_offsets calls that end every constructor and load
ComputeAllOffsets(m) ==
    [m EXCEPT !.dim1_offsets = compute_dim1_offsets(m).table,
              !.dim2_offsets = compute_dim2_offsets(m).table,
              !.dim3_offsets = compute_dim3_offsets(m).table,
              !.dim4_offsets = compute_dim4_offsets(m).table]

ComputeAllOob(m) ==
    \/ compute_dim1_offsets(m).oob
    \/ compute_dim2_offsets(m).oob
    \/ compute_dim3_offsets(m).oob
    \/ compute_dim4_offsets(m).oob

\* a Matrix4D object with the given base part and zero-initialised tables of
\* the given lengths
WithTables(base, n1, n2, n3, n4) ==
    [live         |-> TRUE,
     dim          |-> base.dim,
     data         |-> base.data,
     dim_prod     |-> base.dim_prod,
     dim1_offsets |-> Vec(n1, 0),
     dim2_offsets |-> Vec(n2, 0),
     dim3_offsets |-> Vec(n3, 0),
     dim4_offsets |-> Vec(n4, 0)]

\* the member initialisers of Matrix4D(dim1, dim2, dim3, dim4, value)
ValueCtorTables(dim1, dim2, dim3, dim4, value) ==
    WithTables(Matrix(Coord4(dim1, dim2, dim3, dim4), value), dim1, dim2, dim3, dim4)

\* the table allocation at the end of the file constructor and of load()
LoadTables(base) ==
    WithTables(base, base.dim[1], base.dim[0], base.dim[2], base.dim[3])

\* Matrix4D(const Matrix4D& other)
CopyCtor(other) ==
    [live         |-> TRUE,
     dim          |-> other.dim,
     data         |-> other.data,
     dim_prod     |-> other.dim_prod,
     dim1_offsets |-> other.dim1_offsets,
     dim2_offsets |-> other.dim2_offsets,
     dim3_offsets |-> other.dim3_offsets,
     dim4_offsets |-> other.dim4_offsets]

\* whether each table lookup of convert_to_offset is inside its table
LookupsInBounds(m, dim1, dim2, dim3, dim4) ==
    /\ dim1 < Size(m.dim1_offsets)
    /\ dim2 < Size(m.dim2_offsets)
    /\ dim3 < Size(m.dim3_offsets)
    /\ dim4 < Size(m.dim4_offsets)

\* Matrix4D::convert_to_offset
convert_to_offset(m, dim1, dim2, dim3, dim4) ==
    m.dim1_offsets[dim1] + m.dim2_offsets[dim2] +
    m.dim3_offsets[dim3] + m.dim4_offsets[dim4]

\* whether (*this)(dim1, dim2, dim3, dim4) stays inside the tables and _data
AccessDefined(m, dim1, dim2, dim3, dim4) ==
    /\ LookupsInBounds(m, dim1, dim2, dim3, dim4)
    /\ convert_to_offset(m, dim1, dim2, dim3, dim4) < Size(m.data)

\* Matrix4D::operator(): the values the read can give; outside the buffers
\* the behaviour is undefined and any value may come back
OpRead4D(m, dim1, dim2, dim3, dim4) ==
    IF AccessDefined(m, dim1, dim2, dim3, dim4)
    THEN {m.data[convert_to_offset(m, dim1, dim2, dim3, dim4)]}
    ELSE Values

\* (*this)(dim1, dim2, dim3, dim4) = value : the new _data; a write outside
\* the buffers lands in memory the object does not own
OpWrite4D(m, dim1, dim2, dim3, dim4, value) ==
    IF AccessDefined(m, dim1, dim2, dim3, dim4)
    THEN [m.data EXCEPT ![convert_to_offset(m, dim1, dim2, dim3, dim4)] = value]
    ELSE m.data

\* a get that reads through operator() and validates nothing
get4_unchecked(m, dim1, dim2, dim3, dim4) ==
    CHOOSE v \in OpRead4D(m, dim1, dim2, dim3, dim4) : TRUE

\* Matrix4D::get(dim1, dim2, dim3, dim4)
get4(m, dim1, dim2, dim3, dim4) == base_get(m, Coord4(dim1, dim2, dim3, dim4))

\* Matrix4D::set(dim1, dim2, dim3, dim4, value)
set4(m, dim1, dim2, dim3, dim4, value) ==
    base_set(m, Coord4(dim1, dim2, dim3, dim4), value)

---------------------------------------------------------------------------
(* Matrix2D                                                                *)

Coord2(a, b) == [i \in 0..1 |-> IF i = 0 THEN a ELSE b]

\* Matrix2D(nrow, ncol, value)
Matrix2D(nrow, ncol, value) ==
    [live     |-> TRUE,
     dim      |-> Coord2(nrow, ncol),
     data     |-> Matrix(Coord2(nrow, ncol), value).data,
     dim_prod |-> Matrix(Coord2(nrow, ncol), value).dim_prod]

\* Matrix2D::get(row, col)
get2(m, row, col) == base_get(m, Coord2(row, col))

\* Matrix2D::set(row, col, value): the new _data
set2(m, row, col, value) ==
    LET read == base_get(m, Coord2(row, col)) IN m.data

\* the offset Matrix2D::operator() hands to _data
Offset2(m, row, col) == base_convert_to_offset(m, Coord2(col, row))

\* Matrix2D::operator(): the values the read can give
OpRead2D(m, row, col) ==
    IF Offset2(m, row, col) < Size(m.data)
    THEN {m.data[Offset2(m, row, col)]}
    ELSE Values

\* m(row, col) = value : the new _data
OpWrite2D(m, row, col, value) ==
    IF Offset2(m, row, col) < Size(m.data)
    THEN [m.data EXCEPT ![Offset2(m, row, col)] = value]
    ELSE m.data

\* transpose(m): the first k assignments m2(i,j) = m(j,i) of the two loops,
\* i = 0..ncol-1 outside and j = 0..nrow-1 inside; a read outside m's buffer
\* gives `garbage`
RECURSIVE TransposeLoop(_, _, _, _)
TransposeLoop(m, t, k, garbage) ==
    IF k = 0 THEN t
    ELSE LET prev == TransposeLoop(m, t, k - 1, garbage)
             nrow == m.dim[0]
             i    == (k - 1) \div nrow
             j    == (k - 1) % nrow
             v    == IF Offset2(m, j, i) < Size(m.data)
                     THEN m.data[Offset2(m, j, i)]
                     ELSE garbage
         IN  [prev EXCEPT !.data = OpWrite2D(prev, i, j, v)]

\* transpose(m)
transpose(m, garbage) ==
    TransposeLoop(m, Matrix2D(m.dim[1], m.dim[0], 0), m.dim[0] * m.dim[1], garbage)

\* whether transpose(m) reads or writes outside a buffer
TransposeUndefined(m) ==
    LET t == Matrix2D(m.dim[1], m.dim[0], 0) IN
    \E i \in 0..(m.dim[1] - 1), j \in 0..(m.dim[0] - 1) :
        \/ Offset2(m, j, i) >= Size(m.data)
        \/ Offset2(t, i, j) >= Size(t.data)

---------------------------------------------------------------------------
(* Text format of Matrix4D : headers and print                             *)

\* str[i] of a std::string, i <= size(): the terminating null at i = size()
CharAt(str, i) == IF i < Len(str) THEN str[i + 1] ELSE "NUL"

\* str.find(',', pos) != std::string::npos
FindComma(str, pos) == \E k \in (pos + 1)..Len(str) : str[k] = ","

\* Matrix4D::is_header_3d
is_header_3d(str) ==
    /\ CharAt(str, 0) = ","
    /\ CharAt(str, 1) = ","
    /\ ~FindComma(str, 2)

\* Matrix4D::is_header_4d
is_header_4d(str) ==
    /\ CharAt(str, 0) = ","
    /\ CharAt(str, 1) = ","
    /\ CharAt(str, 2) = ","
    /\ ~FindComma(str, 3)

\* the element print() writes for row dim2, column dim1: (*this)(dim2,dim1,dim3,dim4),
\* any value `garbage` when that access leaves the buffers
PrintedElement(m, dim2, dim1, dim3, dim4, garbage) ==
    IF AccessDefined(m, dim2, dim1, dim3, dim4)
    THEN m.data[convert_to_offset(m, dim2, dim1, dim3, dim4)]
    ELSE garbage

\* one data row of print(): dim[1] elements, each setw(width) then sep
PrintRow(m, dim2, dim3, dim4, width, garbage) ==
    LET row[k \in 0..m.dim[1]] ==
            IF k = 0 THEN <<>>
            ELSE row[k - 1]
                 \o PadLeftAligned(
                        ToChars(PrintedElement(m, dim2, k - 1, dim3, dim4, garbage)), width)
                 \o <<" ">>
    IN  row[m.dim[1]]

\* one ",,dim3" block of print(): the header and dim[0] rows
PrintBlock(m, dim3, dim4, width, garbage) ==
    LET rows[k \in 0..m.dim[0]] ==
            IF k = 0 THEN <<>>
            ELSE Append(rows[k - 1], PrintRow(m, k - 1, dim3, dim4, width, garbage))
    IN  <<(<<",", ",">> \o ToChars(dim3))>> \o rows[m.dim[0]]

\* one ",,,dim4" slice of print()
PrintSlice(m, dim4, width, garbage) ==
    LET blocks[k \in 0..m.dim[2]] ==
            IF k = 0 THEN <<>>
            ELSE blocks[k - 1] \o PrintBlock(m, k - 1, dim4, width, garbage)
    IN  <<(<<",", ",", ",">> \o ToChars(dim4))>> \o blocks[m.dim[2]]

\* the loops of print() over dim4, dim3, dim2, dim1
PrintSlices(m, width, garbage) ==
    LET slices[k \in 0..m.dim[3]] ==
            IF k = 0 THEN <<>>
            ELSE slices[k - 1] \o PrintSlice(m, k - 1, width, garbage)
    IN  slices[m.dim[3]]

\* print() without its test for a null matrix
print_unguarded(m, width, garbage) == PrintSlices(m, width, garbage)

\* Matrix4D::print : the lines written; the last one carries no end of line
print(m, width, garbage) ==
    IF m.dim[0] = 0 \/ m.dim[1] = 0 \/ m.dim[2] = 0 \/ m.dim[3] = 0
    THEN <<>>
    ELSE PrintSlices(m, width, garbage)

\* whether print() reads outside the buffers
PrintUndefined(m) ==
    /\ m.dim[0] # 0 /\ m.dim[1] # 0 /\ m.dim[2] # 0 /\ m.dim[3] # 0
    /\ \E dim2 \in 0..(m.dim[0] - 1), dim1 \in 0..(m.dim[1] - 1),
          dim3 \in 0..(m.dim[2] - 1), dim4 \in 0..(m.dim[3] - 1) :
            ~AccessDefined(m, dim2, dim1, dim3, dim4)

---------------------------------------------------------------------------
(* std::ifstream over a text file                                          *)
(* A file is its lines (without the line terminators) and whether the last *)
(* line ends with a terminator; zero bytes is no line at all.              *)

\* a test for an empty line that never finds one
IsEmptyLine_never(str) == FALSE

\* buffer_str.size() == 0
IsEmptyLine(str) == Len(str) = 0

\* a getline that hands out the line at the read position without moving on
getline_stuck(f, lines, term) ==
    IF f.pos > Len(lines)
    THEN [str |-> <<>>, f |-> [f EXCEPT !.eof = TRUE, !.fail = TRUE]]
    ELSE [str |-> lines[f.pos], f |-> f]

\* std::getline(file, str): the line extracted and the stream afterwards
getline(f, lines, term) ==
    IF f.eof \/ f.fail
    THEN [str |-> <<>>, f |-> [f EXCEPT !.fail = TRUE]]
    ELSE IF f.pos > Len(lines)
    THEN [str |-> <<>>, f |-> [f EXCEPT !.eof = TRUE, !.fail = TRUE]]
    ELSE IF f.pos = Len(lines) /\ ~term
    THEN [str |-> lines[f.pos], f |-> [f EXCEPT !.eof = TRUE, !.pos = f.pos + 1]]
    ELSE [str |-> lines[f.pos], f |-> [f EXCEPT !.pos = f.pos + 1]]

\* file.peek() = EOF, and the stream afterwards
peek(f, lines) ==
    IF f.eof \/ f.fail
    THEN [is_eof |-> TRUE, f |-> [f EXCEPT !.fail = TRUE]]
    ELSE IF f.pos > Len(lines)
    THEN [is_eof |-> TRUE, f |-> [f EXCEPT !.eof = TRUE]]
    ELSE [is_eof |-> FALSE, f |-> f]

---------------------------------------------------------------------------
(* State                                                                   *)

VARIABLES
    m4,               \* the Matrix4D object built by value, binary load or copy
    m2,               \* the Matrix2D object
    call,             \* the last call made on m4 / m2 and how it ended
    ub,               \* some access so far left the buffers (undefined behaviour)
    disk,             \* the text file: lines, final terminator, complete or not
    file,             \* the std::ifstream of the text-file constructor
    pc,               \* position of Matrix4D(const std::string&)
    loaded,           \* the object that constructor is building (this)
    buffer_str,       \* its local buffer_str : the first line of the file
    found_4d_header,  \* its local found_4d_header
    sl,               \* the frame of get_3d_slice
    err,              \* the message of the std::runtime_error thrown, or "none"
    triples,          \* the dim vectors get_3d_slice has returned so far
    ld2,              \* Matrix2D(const std::string&): position, object, locals
    tr,               \* the results of transpose(m2) and of its transpose
    probe             \* a line handed to is_header_3d / is_header_4d, and the answers

objVars == <<m4, m2, call, ub>>

loadVars == <<file, pc, loaded, buffer_str, found_4d_header, sl, err, triples>>

auxVars == <<ld2, tr, probe>>

vars == <<m4, m2, call, ub, disk, file, pc, loaded, buffer_str, found_4d_header,
          sl, err, triples, ld2, tr, probe>>

NoObject == [live |-> FALSE]

NoCall == [op |-> "none", coord |-> <<>>, value |-> 0, thrown |-> FALSE]

ClosedStream == [open |-> FALSE, pos |-> 1, eof |-> FALSE, fail |-> FALSE]

\* the locals of get_3d_slice on entry
NewFrame ==
    [data            |-> <<>>,
     dim             |-> Vec(3, 0),
     found_4d_header |-> FALSE,
     n_line          |-> 0,
     n_line_data     |-> 0,
     row_len         |-> 0,
     col_len         |-> 0,
     row_len_cur     |-> 0,
     col_len_cur     |-> 0]

\* the lines the environment may put in a text file
Header4Line == <<",", ",", ",", "0">>

Header3Line == <<",", ",", "0">>

Row1Line == <<"1">>

Row2Line == <<"0", " ", "1">>

EmptyLine == <<>>

BadLine == <<"x">>

LineSet == {Header4Line, Header3Line, Row1Line, Row2Line, EmptyLine, BadLine}

\* the lines it may put in a file read by Matrix2D(const std::string&)
LineSet2D == {Row1Line, Row2Line, EmptyLine, BadLine}

\* Matrix2D(const std::string&) before the file is opened
NewLoad2D ==
    [pc      |-> "idle",
     m       |-> [live |-> FALSE, dim |-> Vec(2, 0), data |-> <<>>, dim_prod |-> Vec(2, 0)],
     i       |-> 0,
     row_len |-> 0]

NoTranspose == [t |-> NoObject, tt |-> NoObject]

NoProbe == [str |-> <<>>, asked |-> FALSE, h3 |-> FALSE, h4 |-> FALSE]

Coords == 0..(MaxDim - 1)

DepthCoords == 0..(MaxDepth - 1)

Init ==
    /\ m4 = NoObject
    /\ m2 = NoObject
    /\ call = NoCall
    /\ ub = FALSE
    /\ disk = [lines |-> <<>>, term |-> FALSE, sealed |-> FALSE]
    /\ file = ClosedStream
    /\ pc = "idle"
    /\ loaded = NoObject
    /\ buffer_str = <<>>
    /\ found_4d_header = FALSE
    /\ sl = NewFrame
    /\ err = "none"
    /\ triples = <<>>
    /\ ld2 = NewLoad2D
    /\ tr = NoTranspose
    /\ probe = NoProbe

\* nothing has been constructed, written or opened yet
Fresh ==
    /\ ~m4.live /\ ~m2.live
    /\ pc = "idle" /\ ld2.pc = "idle"
    /\ disk.lines = <<>> /\ ~disk.sealed

---------------------------------------------------------------------------
(* Operations on the Matrix4D object                                       *)

\* Matrix4D(dim1, dim2, dim3, dim4, value)
Construct4D(dim1, dim2, dim3, dim4, value) ==
    /\ Fresh
    /\ LET m == ValueCtorTables(dim1, dim2, dim3, dim4, value) IN
        /\ m4' = ComputeAllOffsets(m)
        /\ ub' = (ub \/ ComputeAllOob(m))
    /\ call' = [op |-> "Matrix4D", coord |-> Coord4(dim1, dim2, dim3, dim4),
                value |-> value, thrown |-> FALSE]
    /\ UNCHANGED <<m2, disk, loadVars>>
    /\ UNCHANGED auxVars

\* Matrix4D::load(file_address) on a binary file holding `rank`, the axis
\* sizes and the elements
LoadBinary4D(rank, dim1, dim2, dim3, dim4, value) ==
    /\ Fresh
    /\ IF rank # 4
       THEN /\ call' = [op |-> "load", coord |-> <<>>, value |-> value, thrown |-> TRUE]
            /\ UNCHANGED <<m4, ub>>
       ELSE LET m == LoadTables(Matrix(Coord4(dim1, dim2, dim3, dim4), value)) IN
            /\ m4' = ComputeAllOffsets(m)
            /\ ub' = (ub \/ ComputeAllOob(m))
            /\ call' = [op |-> "load", coord |-> Coord4(dim1, dim2, dim3, dim4),
                        value |-> value, thrown |-> FALSE]
    /\ UNCHANGED <<m2, disk, loadVars>>
    /\ UNCHANGED auxVars

\* Matrix4D(const Matrix4D& other): the object is replaced by its copy
Copy4D ==
    /\ m4.live /\ pc = "idle" /\ ~disk.sealed
    /\ call.op \in {"Matrix4D", "load"} /\ ~call.thrown
    /\ m4' = CopyCtor(m4)
    /\ call' = [call EXCEPT !.op = "copy"]
    /\ UNCHANGED <<m2, ub, disk, loadVars>>
    /\ UNCHANGED auxVars

\* the first element access made on a new object
Untouched == call.op \in {"Matrix4D", "load", "Matrix2D"} /\ ~call.thrown

\* m4.set(dim1, dim2, dim3, dim4, value)
Set4D(dim1, dim2, dim3, dim4, value) ==
    /\ m4.live /\ pc = "idle" /\ ~disk.sealed /\ Untouched
    /\ m4' = [m4 EXCEPT !.data = set4(m4, dim1, dim2, dim3, dim4, value)]
    /\ call' = [op |-> "set", coord |-> Coord4(dim1, dim2, dim3, dim4),
                value |-> value,
                thrown |-> ~InRange(m4, Coord4(dim1, dim2, dim3, dim4))]
    /\ UNCHANGED <<m2, ub, disk, loadVars>>
    /\ UNCHANGED auxVars

\* m4(dim1, dim2, dim3, dim4) = value
Assign4D(dim1, dim2, dim3, dim4, value) ==
    /\ m4.live /\ pc = "idle" /\ ~disk.sealed /\ Untouched
    /\ m4' = [m4 EXCEPT !.data = OpWrite4D(m4, dim1, dim2, dim3, dim4, value)]
    /\ ub' = (ub \/ ~AccessDefined(m4, dim1, dim2, dim3, dim4))
    /\ call' = [op |-> "operator()", coord |-> Coord4(dim1, dim2, dim3, dim4),
                value |-> value, thrown |-> FALSE]
    /\ UNCHANGED <<m2, disk, loadVars>>
    /\ UNCHANGED auxVars

\* m4.print(stream) into the text file (after a set that threw the object is
\* as it was before the set, and so is what print writes)
Print4D(garbage) ==
    /\ m4.live /\ pc = "idle" /\ ~disk.sealed
    /\ ~call.thrown
    /\ garbage = 0 \/ PrintUndefined(m4)
    /\ disk' = [lines |-> print(m4, PrintWidth, garbage), term |-> FALSE, sealed |-> TRUE]
    /\ ub' = (ub \/ PrintUndefined(m4))
    /\ call' = [op |-> "print", coord |-> <<>>, value |-> 0, thrown |-> FALSE]
    /\ UNCHANGED <<m4, m2, loadVars>>
    /\ UNCHANGED auxVars

---------------------------------------------------------------------------
(* Operations on the Matrix2D object                                       *)

\* Matrix2D(nrow, ncol, value)
Construct2D(nrow, ncol, value) ==
    /\ Fresh
    /\ m2' = Matrix2D(nrow, ncol, value)
    /\ call' = [op |-> "Matrix2D", coord |-> Coord2(nrow, ncol),
                value |-> value, thrown |-> FALSE]
    /\ UNCHANGED <<m4, ub, disk, loadVars>>
    /\ UNCHANGED auxVars

\* m2.set(row, col, value)
Set2D(row, col, value) ==
    /\ m2.live /\ Untouched
    /\ m2' = [m2 EXCEPT !.data = set2(m2, row, col, value)]
    /\ call' = [op |-> "set", coord |-> Coord2(row, col), value |-> value,
                thrown |-> ~InRange(m2, Coord2(row, col))]
    /\ UNCHANGED <<m4, ub, disk, loadVars>>
    /\ UNCHANGED auxVars

\* m2(row, col) = value
Assign2D(row, col, value) ==
    /\ m2.live /\ Untouched
    /\ m2' = [m2 EXCEPT !.data = OpWrite2D(m2, row, col, value)]
    /\ ub' = (ub \/ Offset2(m2, row, col) >= Size(m2.data))
    /\ call' = [op |-> "operator()", coord |-> Coord2(row, col), value |-> value,
                thrown |-> FALSE]
    /\ UNCHANGED <<m4, disk, loadVars>>
    /\ UNCHANGED auxVars

\* t = transpose(m2)
Transpose2D(garbage) ==
    /\ m2.live /\ ~tr.t.live
    /\ garbage = 0 \/ TransposeUndefined(m2)
    /\ tr' = [tr EXCEPT !.t = transpose(m2, garbage)]
    /\ ub' = (ub \/ TransposeUndefined(m2))
    /\ call' = [op |-> "transpose", coord |-> <<>>, value |-> 0, thrown |-> FALSE]
    /\ UNCHANGED <<m4, m2, disk, loadVars, ld2, probe>>

\* tt = transpose(t)
TransposeBack2D(garbage) ==
    /\ tr.t.live /\ ~tr.tt.live
    /\ garbage = 0 \/ TransposeUndefined(tr.t)
    /\ tr' = [tr EXCEPT !.tt = transpose(tr.t, garbage)]
    /\ ub' = (ub \/ TransposeUndefined(tr.t))
    /\ UNCHANGED <<m4, m2, call, disk, loadVars, ld2, probe>>

---------------------------------------------------------------------------
(* The text file and its writer                                            *)

\* the constructor is about to read and the file's next line is not decided
NeedInput ==
    /\ pc \in {"first", "slice"} \/ ld2.pc = "rows"
    /\ ~disk.sealed
    /\ file.pos >= Len(disk.lines)

\* the line at file.pos, and whether it is the last one, are decided
CanRead == disk.sealed \/ file.pos < Len(disk.lines)

\* the file goes on with one more line
WriteLine(line) ==
    /\ NeedInput
    /\ Len(disk.lines) < MaxLines
    /\ ld2.pc = "rows" => line \in LineSet2D
    /\ disk' = [disk EXCEPT !.lines = Append(disk.lines, line)]
    /\ UNCHANGED <<objVars, loadVars>>
    /\ UNCHANGED auxVars

\* the file ends here, after a line terminator (term) or without one
EndOfFile(term) ==
    /\ NeedInput
    /\ IF term \/ Len(disk.lines) = 0
       THEN term = (Len(disk.lines) > 0)
       ELSE disk.lines[Len(disk.lines)] # <<>>
    /\ disk' = [disk EXCEPT !.term = term, !.sealed = TRUE]
    /\ UNCHANGED <<objVars, loadVars>>
    /\ UNCHANGED auxVars

---------------------------------------------------------------------------
(* Matrix4D(const std::string& file_address)                               *)

\* a throw that leaves the stream as it is
Throw_leaving_open(msg, f) ==
    /\ pc' = "failed"
    /\ err' = msg
    /\ file' = f

\* throw std::runtime_error(msg), the stream closed on the way out
Throw(msg, f) ==
    /\ pc' = "failed"
    /\ err' = msg
    /\ file' = [f EXCEPT !.open = FALSE]

\* the field initialisation and the opening of the file (a program whose
\* behaviour is already undefined is not followed into a load)
LoadStart(can_open) ==
    /\ pc = "idle" /\ ld2.pc = "idle"
    /\ ~ub
    /\ Fresh \/ disk.sealed
    /\ can_open \/ Fresh
    /\ loaded' = [WithTables([dim |-> Vec(4, 0), data |-> <<>>, dim_prod |-> Vec(4, 0)],
                             0, 0, 0, 0) EXCEPT !.live = FALSE]
    /\ IF can_open
       THEN /\ file' = [open |-> TRUE, pos |-> 1, eof |-> FALSE, fail |-> FALSE]
            /\ pc' = "first"
            /\ err' = err
       ELSE Throw("cannot open", ClosedStream)
    /\ UNCHANGED <<objVars, disk, buffer_str, found_4d_header, sl, triples>>
    /\ UNCHANGED auxVars

\* read 1st line, the empty-file convention, the first header test
ReadFirstLine ==
    /\ pc = "first"
    /\ CanRead
    /\ LET g  == getline(file, disk.lines, disk.term)
           pk == peek(g.f, disk.lines)
       IN  /\ buffer_str' = g.str
           /\ IF IsEmptyLine(g.str)
              THEN IF pk.is_eof /\ pk.f.eof
                   THEN /\ file' = [pk.f EXCEPT !.open = FALSE]
                        /\ pc' = "done"
                        /\ loaded' = [loaded EXCEPT !.live = TRUE]
                        /\ UNCHANGED <<err, found_4d_header>>
                   ELSE /\ Throw("empty line", pk.f)
                        /\ UNCHANGED <<loaded, found_4d_header>>
              ELSE IF g.f.fail
              THEN /\ Throw("read error", g.f)
                   /\ UNCHANGED <<loaded, found_4d_header>>
              ELSE /\ found_4d_header' = is_header_4d(g.str)
                   /\ file' = g.f
                   /\ pc' = "loop"
                   /\ UNCHANGED <<loaded, err>>
    /\ UNCHANGED <<objVars, disk, sl, triples>>
    /\ UNCHANGED auxVars

\* the head of one iteration of the do-while loop
LoopIter ==
    /\ pc = "loop"
    /\ IF file.fail
       THEN Throw("read error", file) /\ sl' = sl
       ELSE IF IsEmptyLine(buffer_str)
       THEN Throw("empty line", file) /\ sl' = sl
       ELSE IF found_4d_header
       THEN pc' = "slice" /\ sl' = NewFrame /\ UNCHANGED <<file, err>>
       ELSE IF ~file.eof
       THEN Throw("read error", file) /\ sl' = sl
       ELSE pc' = "tail" /\ UNCHANGED <<file, err, sl>>
    /\ UNCHANGED <<objVars, disk, loaded, buffer_str, found_4d_header, triples>>
    /\ UNCHANGED auxVars

\* the data row `str` in get_3d_slice
SliceDataRow(str, f) ==
    LET row == ParseLine(str)
        row_len_cur == Size(row.vals)
    IN  IF row.bad
        THEN Throw("incompatible data types", f) /\ sl' = sl
        ELSE IF sl.n_line_data # 0 /\ row_len_cur # sl.row_len
        THEN Throw("variable dimensions", f) /\ sl' = sl
        ELSE /\ sl' = [sl EXCEPT
                        !.row_len_cur = row_len_cur,
                        !.row_len = IF sl.n_line_data = 0 THEN row_len_cur ELSE sl.row_len,
                        !.data = Concat(sl.data, row.vals),
                        !.col_len_cur = sl.col_len_cur + 1,
                        !.n_line_data = sl.n_line_data + 1,
                        !.n_line = sl.n_line + 1,
                        !.dim = [sl.dim EXCEPT ![0] = row_len_cur,
                                               ![1] = sl.col_len_cur + 1]]
             /\ file' = f
             /\ UNCHANGED <<pc, err>>

\* the ",,N" header in get_3d_slice
SliceHeader3D(f) ==
    IF sl.dim[2] # 1 /\ sl.col_len_cur # sl.col_len
    THEN Throw("variable dimensions", f) /\ sl' = sl
    ELSE /\ sl' = [sl EXCEPT
                    !.col_len = IF sl.dim[2] = 1 THEN sl.col_len_cur ELSE sl.col_len,
                    !.dim = [sl.dim EXCEPT ![2] = sl.dim[2] + 1],
                    !.col_len_cur = 0,
                    !.n_line = sl.n_line + 1]
         /\ file' = f
         /\ UNCHANGED <<pc, err>>

\* one iteration of while(getline(file, buffer_str)) in get_3d_slice
SliceLine ==
    /\ pc = "slice"
    /\ CanRead
    /\ LET g == getline(file, disk.lines, disk.term) IN
       IF g.f.fail
       THEN pc' = "slice_end" /\ file' = g.f /\ UNCHANGED <<sl, err>>
       ELSE IF IsEmptyLine(g.str)
       THEN Throw("empty line", g.f) /\ sl' = sl
       ELSE IF is_header_4d(g.str)
       THEN /\ sl' = [sl EXCEPT !.found_4d_header = TRUE]
            /\ pc' = "slice_end"
            /\ file' = g.f
            /\ err' = err
       ELSE IF is_header_3d(g.str)
       THEN SliceHeader3D(g.f)
       ELSE IF sl.n_line = 0
       THEN Throw("first line is not a slice header", g.f) /\ sl' = sl
       ELSE SliceDataRow(g.str, g.f)
    /\ UNCHANGED <<objVars, disk, loaded, buffer_str, found_4d_header, triples>>
    /\ UNCHANGED auxVars

\* the slice test that leaves out the row length
SliceDimsDiffer_no_row_len(dim, this_dim) ==
    dim[1] # this_dim[1] \/ dim[2] # this_dim[2]

\* the test of a later slice's dimensions against the object's
SliceDimsDiffer(dim, this_dim) ==
    dim[0] # this_dim[0] \/ dim[1] # this_dim[1] \/ dim[2] # this_dim[2]

\* the end of get_3d_slice and the use the constructor makes of its result
SliceReturn ==
    /\ pc = "slice_end"
    /\ IF sl.col_len_cur # sl.dim[1]
       THEN Throw("variable dimensions", file)
            /\ UNCHANGED <<loaded, found_4d_header, triples>>
       ELSE IF loaded.dim[3] # 0 /\ SliceDimsDiffer(sl.dim, loaded.dim)
       THEN Throw("variable dimensions", file)
            /\ UNCHANGED <<loaded, found_4d_header>>
            /\ triples' = Append(triples, sl.dim)
       ELSE /\ loaded' = [loaded EXCEPT
                            !.data = Concat(loaded.data, sl.data),
                            !.dim = [i \in 0..3 |->
                                       IF i = 3 THEN loaded.dim[3] + 1
                                       ELSE IF loaded.dim[3] = 0 THEN sl.dim[i]
                                       ELSE loaded.dim[i]]]
            /\ found_4d_header' = sl.found_4d_header
            /\ triples' = Append(triples, sl.dim)
            /\ pc' = IF sl.found_4d_header THEN "loop" ELSE "tail"
            /\ UNCHANGED <<file, err>>
    /\ UNCHANGED <<objVars, disk, buffer_str, sl>>
    /\ UNCHANGED auxVars

\* after the loop: close, compute_dim_product, the offset tables
LoadTail ==
    /\ pc = "tail"
    /\ LET m == LoadTables([dim      |-> loaded.dim,
                            data     |-> loaded.data,
                            dim_prod |-> compute_dim_product(loaded.dim)])
       IN  /\ loaded' = ComputeAllOffsets(m)
           /\ ub' = (ub \/ ComputeAllOob(m))
    /\ file' = [file EXCEPT !.open = FALSE]
    /\ pc' = "done"
    /\ UNCHANGED <<m4, m2, call, disk, buffer_str, found_4d_header, sl, err, triples>>
    /\ UNCHANGED auxVars

---------------------------------------------------------------------------
(* Matrix2D(const std::string& file_address)                               *)

\* throw std::runtime_error(msg) out of the Matrix2D constructor: the local
\* std::ifstream is destroyed while the stack unwinds, which closes the file
Throw2D(msg, f) ==
    /\ ld2' = [ld2 EXCEPT !.pc = "failed"]
    /\ err' = msg
    /\ file' = [f EXCEPT !.open = FALSE]

\* the field initialisation and the opening of the file
LoadStart2D(can_open) ==
    /\ Fresh
    /\ IF can_open
       THEN /\ file' = [open |-> TRUE, pos |-> 1, eof |-> FALSE, fail |-> FALSE]
            /\ ld2' = [NewLoad2D EXCEPT !.pc = "rows"]
            /\ err' = err
       ELSE Throw2D("cannot open", ClosedStream)
    /\ UNCHANGED <<objVars, disk, pc, loaded, buffer_str, found_4d_header, sl, triples,
                   tr, probe>>

\* after the loop: file.close(), _dim[0] = row_len, compute_dim_product()
LoadTail2D(f) ==
    LET dim == [ld2.m.dim EXCEPT ![0] = ld2.row_len] IN
    /\ ld2' = [ld2 EXCEPT !.pc = "done",
                          !.m = [live     |-> TRUE,
                                 dim      |-> dim,
                                 data     |-> ld2.m.data,
                                 dim_prod |-> compute_dim_product(dim)]]
    /\ file' = [f EXCEPT !.open = FALSE]
    /\ err' = err

\* one iteration of while(getline(file, buffer_str)), and what follows the
\* loop when this iteration leaves it
ReadRow2D ==
    /\ ld2.pc = "rows"
    /\ CanRead
    /\ LET g   == getline(file, disk.lines, disk.term)
           row == ParseLine(g.str).vals
       IN  IF g.f.fail \/ g.f.eof
           THEN LoadTail2D(g.f)
           ELSE IF IsEmptyLine(g.str)
           THEN Throw2D("empty line", g.f)
           ELSE IF ld2.i # 0 /\ Size(row) # ld2.row_len
           THEN Throw2D("variable number of columns", g.f)
           ELSE /\ ld2' = [ld2 EXCEPT
                             !.row_len = IF ld2.i = 0 THEN Size(row) ELSE ld2.row_len,
                             !.m.data = Concat(ld2.m.data, row),
                             !.m.dim = [ld2.m.dim EXCEPT ![1] = ld2.m.dim[1] + 1],
                             !.i = ld2.i + 1]
                /\ file' = g.f
                /\ err' = err
    /\ UNCHANGED <<objVars, disk, pc, loaded, buffer_str, found_4d_header, sl, triples,
                   tr, probe>>

---------------------------------------------------------------------------
(* Specification                                                           *)

\* the calls a program can make on a new or existing object, the steps of the
\* text-file constructor, and the writer of the file it reads
Next ==
    \/ Fresh /\ \E dim1, dim2 \in AxisSizes, dim3, dim4 \in DepthSizes, value \in Values :
                    Construct4D(dim1, dim2, dim3, dim4, value)
    \/ Fresh /\ \E rank \in {2, 4}, dim1, dim2 \in AxisSizes, dim3, dim4 \in DepthSizes,
                    value \in Values :
                    LoadBinary4D(rank, dim1, dim2, dim3, dim4, value)
    \/ Fresh /\ \E nrow, ncol \in AxisSizes, value \in Values :
                    Construct2D(nrow, ncol, value)
    \/ m4.live /\ Copy4D
    \/ m4.live /\ \E dim1, dim2 \in Coords, dim3, dim4 \in DepthCoords, value \in Values :
                    Set4D(dim1, dim2, dim3, dim4, value)
    \/ m4.live /\ \E dim1, dim2 \in Coords, dim3, dim4 \in DepthCoords, value \in Values :
                    Assign4D(dim1, dim2, dim3, dim4, value)
    \/ m4.live /\ \E garbage \in Values : Print4D(garbage)
    \/ m2.live /\ \E row, col \in Coords, value \in Values : Set2D(row, col, value)
    \/ m2.live /\ \E row, col \in Coords, value \in Values : Assign2D(row, col, value)
    \/ m2.live /\ \E garbage \in Values : Transpose2D(garbage)
    \/ tr.t.live /\ \E garbage \in Values : TransposeBack2D(garbage)
    \/ NeedInput /\ \E line \in LineSet : WriteLine(line)
    \/ NeedInput /\ \E term \in BOOLEAN : EndOfFile(term)
    \/ \E can_open \in BOOLEAN : LoadStart(can_open)
    \/ ReadFirstLine
    \/ LoopIter
    \/ SliceLine
    \/ SliceReturn
    \/ LoadTail
    \/ Fresh /\ \E can_open \in BOOLEAN : LoadStart2D(can_open)
    \/ ReadRow2D

Spec == Init /\ [][Next]_vars

---------------------------------------------------------------------------
(* Matrix4D(const std::string&) on given files: the documented example and *)
(* files of the same layout                                                *)

\* a data row of three values as print writes it with one separator
RowOf(a, b, c) == ToChars(a) \o <<" ">> \o ToChars(b) \o <<" ">> \o ToChars(c)

ExampleRows == {RowOf(1, 2, 3), RowOf(4, 5, 6), RowOf(7, 8, 9), RowOf(10, 11, 12)}

Header3Line1 == <<",", ",", "1">>

\* one slice of two blocks of two rows
ExampleLayout(r1, r2, r3, r4) ==
    <<Header4Line, Header3Line, r1, r2, Header3Line1, r3, r4>>

ExampleFile ==
    ExampleLayout(RowOf(1, 2, 3), RowOf(4, 5, 6), RowOf(7, 8, 9), RowOf(10, 11, 12))

InitExample ==
    /\ m4 = NoObject
    /\ m2 = NoObject
    /\ call = NoCall
    /\ ub = FALSE
    /\ \E r1, r2, r3, r4 \in ExampleRows, term \in BOOLEAN :
          disk = [lines |-> ExampleLayout(r1, r2, r3, r4), term |-> term, sealed |-> TRUE]
    /\ file = ClosedStream
    /\ pc = "idle"
    /\ loaded = NoObject
    /\ buffer_str = <<>>
    /\ found_4d_header = FALSE
    /\ sl = NewFrame
    /\ err = "none"
    /\ triples = <<>>
    /\ ld2 = NewLoad2D
    /\ tr = NoTranspose
    /\ probe = NoProbe

NextExample ==
    \/ \E can_open \in BOOLEAN : LoadStart(can_open)
    \/ ReadFirstLine
    \/ LoopIter
    \/ SliceLine
    \/ SliceReturn
    \/ LoadTail

SpecExample == InitExample /\ [][NextExample]_vars

---------------------------------------------------------------------------
(* Matrix4D(const std::string&) run to its end on a finite file            *)

\* a step of the constructor once the file is open
LoadStep ==
    \/ ReadFirstLine
    \/ LoopIter
    \/ SliceLine
    \/ SliceReturn
    \/ LoadTail

\* the file shows its next line or its end
FileStep ==
    \/ \E line \in LineSet : WriteLine(line)
    \/ \E term \in BOOLEAN : EndOfFile(term)

NextLoad ==
    \/ \E can_open \in BOOLEAN : LoadStart(can_open)
    \/ ReadFirstLine
    \/ LoopIter
    \/ SliceLine
    \/ SliceReturn
    \/ LoadTail
    \/ NeedInput /\ \E line \in LineSet : WriteLine(line)
    \/ NeedInput /\ \E term \in BOOLEAN : EndOfFile(term)

\* the constructor is sequential code that runs on until it returns or
\* throws, and a read of a finite file always gets a line or the end of file
SpecLoadFair ==
    /\ Init
    /\ [][NextLoad]_vars
    /\ WF_vars(LoadStep)
    /\ WF_vars(FileStep)

---------------------------------------------------------------------------
(* is_header_3d and is_header_4d on arbitrary lines                        *)

ProbeChars == {",", "0", "a"}

ProbeLines == UNION {[1..n -> ProbeChars] : n \in 0..MaxProbeLen}

InitProbe ==
    /\ m4 = NoObject
    /\ m2 = NoObject
    /\ call = NoCall
    /\ ub = FALSE
    /\ disk = [lines |-> <<>>, term |-> FALSE, sealed |-> FALSE]
    /\ file = ClosedStream
    /\ pc = "idle"
    /\ loaded = NoObject
    /\ buffer_str = <<>>
    /\ found_4d_header = FALSE
    /\ sl = NewFrame
    /\ err = "none"
    /\ triples = <<>>
    /\ ld2 = NewLoad2D
    /\ tr = NoTranspose
    /\ \E str \in ProbeLines : probe = [NoProbe EXCEPT !.str = str]

\* is_header_3d(str) and is_header_4d(str) are called on the line
Classify ==
    /\ ~probe.asked
    /\ probe' = [probe EXCEPT !.asked = TRUE,
                              !.h3 = is_header_3d(probe.str),
                              !.h4 = is_header_4d(probe.str)]
    /\ UNCHANGED <<objVars, disk, loadVars, ld2, tr>>

NextProbe == Classify

SpecProbe == InitProbe /\ [][NextProbe]_vars

---------------------------------------------------------------------------
(* Vocabulary of the properties                                            *)

\* the constructor has returned an object
Loaded == pc = "done"

\* the constructor has thrown
Failed == pc = "failed"

NullDims == Vec(4, 0)

HasZeroAxis(m) == \E i \in 0..3 : m.dim[i] = 0

\* the in-range coordinate tuples of a 4D object
InRangeCoords4(m) ==
    {Coord4(dim1, dim2, dim3, dim4) :
        dim1 \in 0..(m.dim[0] - 1), dim2 \in 0..(m.dim[1] - 1),
        dim3 \in 0..(m.dim[2] - 1), dim4 \in 0..(m.dim[3] - 1)}

\* the layout of a text file, read off its lines alone: for every ",,,N"
\* slice the number of data rows of each ",,N" block and the token counts of
\* its data rows
RECURSIVE Layout(_, _, _)
Layout(lines, i, slices) ==
    IF i > Len(lines) THEN slices
    ELSE LET n   == Len(slices)
             cur == slices[n]
             nb  == Len(cur.blocks)
         IN  IF is_header_4d(lines[i])
             THEN Layout(lines, i + 1, Append(slices, [blocks |-> <<>>, widths |-> {}]))
             ELSE IF n = 0 THEN Layout(lines, i + 1, slices)
             ELSE IF is_header_3d(lines[i])
             THEN Layout(lines, i + 1,
                         [slices EXCEPT ![n].blocks = Append(cur.blocks, 0)])
             ELSE IF nb = 0 THEN Layout(lines, i + 1, slices)
             ELSE Layout(lines, i + 1,
                         [slices EXCEPT ![n].blocks[nb] = cur.blocks[nb] + 1,
                                        ![n].widths = cur.widths \cup
                                                      {Size(ParseLine(lines[i]).vals)}])

FileLayout == Layout(disk.lines, 1, <<>>)

\* some slice of the file holds two blocks, each with data rows, of different
\* row counts
RaggedBlocks ==
    \E k \in 1..Len(FileLayout) :
        \E a, b \in 1..Len(FileLayout[k].blocks) :
            /\ FileLayout[k].blocks[a] > 0
            /\ FileLayout[k].blocks[b] > 0
            /\ FileLayout[k].blocks[a] # FileLayout[k].blocks[b]

\* some slice of the file holds two data rows of different token counts
RaggedRows ==
    \E k \in 1..Len(FileLayout) : Cardinality(FileLayout[k].widths) > 1

---------------------------------------------------------------------------
(* C1 *)

\* C1: after every successful construction of a Matrix4D, by dimensions and
\* fill value or by the text-file constructor, the number of stored elements
\* is dim[0]*dim[1]*dim[2]*dim[3].
C1_ElementCountIsDimProduct ==
    /\ (m4.live /\ call.op = "Matrix4D") => Size(m4.data) = Prod(m4.dim, 0, 3)
    /\ Loaded => Size(loaded.data) = Prod(loaded.dim, 0, 3)

---------------------------------------------------------------------------
(* C2 *)

\* C2: a file in which, inside one ",,,N" slice, two ",,N" blocks have
\* different numbers of data rows, or two data rows different numbers of
\* tokens, is never loaded: the constructor throws "variable dimensions".
\* This covers every block of the slice, the last one included.
C2_RaggedSliceRejected ==
    (RaggedBlocks \/ RaggedRows) => ~Loaded

---------------------------------------------------------------------------
(* C3 *)

\* the text file was written by print() from m4
Printed == m4.live /\ call.op = "print"

\* C3: for any Matrix4D with all four axis sizes >= 1, also when the first
\* two differ, print followed by the text-file constructor gives an object
\* with the same dimension vector and the same flat element sequence.
C3_TextRoundTrip ==
    (Printed /\ Loaded /\ ~HasZeroAxis(m4)) =>
        /\ loaded.dim = m4.dim
        /\ loaded.data = m4.data

---------------------------------------------------------------------------
(* C4 *)

\* the file starts with a line that has characters and is no ",,,N" header
FirstLineNotHeader ==
    /\ Len(disk.lines) >= 1
    /\ Len(disk.lines[1]) > 0
    /\ ~is_header_4d(disk.lines[1])

\* C4: a file whose first line is not a ",,,N" header is never loaded,
\* whatever follows that line: more lines, a line terminator, or the end of
\* the file right away.
C4_NonHeaderFirstLineRejected ==
    FirstLineNotHeader => ~Loaded

---------------------------------------------------------------------------
(* C5 *)

\* C5: for every in-range (dim1, dim2, dim3, dim4), operator() addresses
\* dim1*dim_prod[0] + dim2*dim_prod[1] + dim3*dim_prod[2] + dim4*dim_prod[3],
\* the element get and set address: what one accessor writes the other
\* reads back at the same coordinates.
C5_AccessorsAddressSameElement ==
    m4.live =>
        /\ \A c \in InRangeCoords4(m4) :
              /\ AccessDefined(m4, c[0], c[1], c[2], c[3])
              /\ convert_to_offset(m4, c[0], c[1], c[2], c[3])
                    = base_convert_to_offset(m4, c)
        /\ (call.op = "operator()" /\ InRange(m4, call.coord)) =>
              get4(m4, call.coord[0], call.coord[1], call.coord[2], call.coord[3])
                 = call.value
        /\ (call.op = "set" /\ InRange(m4, call.coord)) =>
              OpRead4D(m4, call.coord[0], call.coord[1], call.coord[2], call.coord[3])
                 = {call.value}

---------------------------------------------------------------------------
(* C6 *)

\* C6: right after Matrix4D(dim1,dim2,dim3,dim4,v) or Matrix2D(nrow,ncol,v)
\* with every axis size >= 1, equal or not, every in-range coordinate gives v
\* through the checked get and through operator().
C6_FillValueEverywhere ==
    /\ (m4.live /\ call.op = "Matrix4D") =>
          \A c \in InRangeCoords4(m4) :
              /\ get4(m4, c[0], c[1], c[2], c[3]) = call.value
              /\ OpRead4D(m4, c[0], c[1], c[2], c[3]) = {call.value}
    /\ (m2.live /\ call.op = "Matrix2D") =>
          \A row \in 0..(m2.dim[0] - 1), col \in 0..(m2.dim[1] - 1) :
              /\ get2(m2, row, col) = call.value
              /\ OpRead2D(m2, row, col) = {call.value}

---------------------------------------------------------------------------
(* C7 *)

\* table holds k * stride at every k and has n entries
IsOffsetTable(table, n, stride) ==
    /\ Size(table) = n
    /\ \A k \in DOMAIN table : table[k] = k * stride

\* the four tables of m, each against the axis whose stride fills it
TablesMatchAxes(m) ==
    /\ IsOffsetTable(m.dim1_offsets, m.dim[1], m.dim_prod[1])
    /\ IsOffsetTable(m.dim2_offsets, m.dim[0], m.dim_prod[0])
    /\ IsOffsetTable(m.dim3_offsets, m.dim[2], m.dim_prod[2])
    /\ IsOffsetTable(m.dim4_offsets, m.dim[3], m.dim_prod[3])

\* C7: in every Matrix4D reached by value construction, text load, binary
\* load or copy, the table filled with k*dim_prod[i] has dim[i] entries, each
\* entry k is k*dim_prod[i], and no fill wrote past the end of a table.
C7_OffsetTablesMatchAxes ==
    /\ (m4.live /\ call.op \in {"Matrix4D", "load", "copy"}) =>
          TablesMatchAxes(m4) /\ ~ub
    /\ (Loaded /\ ~m4.live) => TablesMatchAxes(loaded) /\ ~ub

---------------------------------------------------------------------------
(* C8 *)

\* C8: after Matrix2D::set(row, col, value) with (row, col) in range, get(row,
\* col) returns value.
C8_Set2DStoresValue ==
    (m2.live /\ call.op = "set" /\ ~call.thrown) =>
        get2(m2, call.coord[0], call.coord[1]) = call.value

---------------------------------------------------------------------------
(* C9 *)

\* the whole file is zero bytes, or exactly one line terminator
EmptyFile ==
    /\ disk.sealed
    /\ \/ disk.lines = <<>>
       \/ disk.lines = <<EmptyLine>> /\ disk.term

\* C9: a file of zero bytes, or of exactly one line terminator, loads to an
\* object of dimensions (0,0,0,0) without elements; print of an object with
\* an axis of size 0 writes nothing; so loading what print wrote for a null
\* object gives a null object again.
C9_EmptyFileConvention ==
    /\ (EmptyFile /\ pc \notin {"idle", "first"}) =>
          /\ Loaded /\ err = "none" /\ ~file.open
          /\ loaded.live /\ loaded.dim = NullDims /\ Size(loaded.data) = 0
    /\ (Printed /\ HasZeroAxis(m4)) =>
          disk.lines = <<>> /\ ~disk.term /\ (pc \notin {"idle", "first"} => Loaded)

\* a null object with a non-zero axis was printed and loaded back
C9_Witness ==
    /\ Printed /\ HasZeroAxis(m4) /\ m4.dim # NullDims
    /\ Loaded /\ loaded.dim = NullDims

---------------------------------------------------------------------------
(* C10 *)

\* get_3d_slice has returned a slice whose triple is not the first slice's
SliceTripleDiffers ==
    \E k \in 2..Len(triples) : triples[k] # triples[1]

\* C10: when a slice after the first has a (row_len, col_len, depth_len)
\* triple other than the first slice's, the constructor throws "variable
\* dimensions"; the first slice alone fixes the first three axis sizes.
C10_LaterSlicesMatchFirst ==
    /\ SliceTripleDiffers => (Failed /\ err = "variable dimensions")
    /\ (Len(triples) >= 1 /\ pc \in {"loop", "slice", "slice_end", "tail", "done"}) =>
          \A i \in 0..2 : loaded.dim[i] = triples[1][i]

\* a second slice with data and another triple made the constructor throw
C10_Witness ==
    /\ Failed /\ err = "variable dimensions"
    /\ Len(triples) >= 2
    /\ triples[Len(triples)] # triples[1]
    /\ \A i \in 0..2 : triples[1][i] >= 1 /\ triples[Len(triples)][i] >= 1

---------------------------------------------------------------------------
(* C11 *)

\* the Matrix2D constructor has returned an object / has thrown
Loaded2D == ld2.pc = "done"

Failed2D == ld2.pc = "failed"

\* the file is a single line terminator and the Matrix4D constructor reads it
OnlyTerminator4D == pc # "idle" /\ disk.lines = <<EmptyLine>>

\* C11: once a loader (Matrix4D or Matrix2D) has read a zero-length line of a
\* file that is not wholly empty, wherever the line stands, the load has
\* failed with the "empty line" error; and no file holding such a line is
\* ever loaded.
C11_EmptyLineIsFatal ==
    /\ \A k \in 1..Len(disk.lines) :
          (disk.lines[k] = EmptyLine /\ file.pos > k /\ ~OnlyTerminator4D) =>
              (Failed \/ Failed2D) /\ err = "empty line"
    /\ (Loaded /\ ~EmptyFile) => \A k \in 1..Len(disk.lines) : disk.lines[k] # EmptyLine
    /\ Loaded2D => \A k \in 1..Len(disk.lines) : disk.lines[k] # EmptyLine

\* an empty line right after a data row of a slice made the Matrix4D
\* constructor throw
C11_Witness ==
    /\ Failed /\ err = "empty line"
    /\ \E k \in 3..Len(disk.lines) :
          /\ disk.lines[k] = EmptyLine
          /\ disk.lines[k - 1] \in {Row1Line, Row2Line}
          /\ file.pos = k + 1

---------------------------------------------------------------------------
(* C12 *)

\* this step is a call of set or operator() on the object
CallStep(op) == call.op # op /\ call'.op = op

\* C12: a checked set with a coordinate >= the size of its axis throws
\* std::out_of_range and leaves every element as it was, on Matrix4D and on
\* Matrix2D; a checked get at such coordinates throws as well; operator()
\* validates nothing and never throws.
C12_CheckedAccessRejectsOutOfRange ==
    [][/\ (CallStep("set") /\ m4.live /\ ~InRange(m4, call'.coord)) =>
              call'.thrown /\ m4'.data = m4.data
       /\ (CallStep("set") /\ m2.live /\ ~InRange(m2, call'.coord)) =>
              call'.thrown /\ m2'.data = m2.data
       /\ m4'.live =>
              \A dim1, dim2 \in Coords, dim3, dim4 \in DepthCoords :
                  ~InRange(m4', Coord4(dim1, dim2, dim3, dim4)) =>
                      get4(m4', dim1, dim2, dim3, dim4) = -1
       /\ m2'.live =>
              \A row, col \in Coords :
                  ~InRange(m2', Coord2(row, col)) => get2(m2', row, col) = -1
       /\ CallStep("operator()") => ~call'.thrown
      ]_vars

\* a checked set on a Matrix4D holding elements was refused for its coordinates
C12_Witness ==
    /\ m4.live /\ Size(m4.data) > 0
    /\ call.op = "set" /\ call.thrown
    /\ ~InRange(m4, call.coord)

---------------------------------------------------------------------------
(* C13 *)

\* a text-file constructor has returned or thrown
LoadEnded == Loaded \/ Failed \/ Loaded2D \/ Failed2D

\* C13: when Matrix4D(file) or Matrix2D(file) has ended, by a normal return
\* (the null-tensor return included) or by any exception, the file is closed;
\* after an exception the caller holds no object, after a return it holds one.
C13_FileClosedOnEveryExit ==
    /\ LoadEnded => ~file.open
    /\ Failed => ~loaded.live
    /\ Failed2D => ~ld2.m.live
    /\ Loaded => loaded.live
    /\ Loaded2D => ld2.m.live
    /\ file.open => (pc \in {"first", "loop", "slice", "slice_end", "tail"}
                        \/ ld2.pc = "rows")

\* the constructor threw on a later slice, after elements of the first one
\* had been stored
C13_Witness ==
    /\ Failed /\ err = "variable dimensions"
    /\ Size(loaded.data) > 0
    /\ file.pos > 1 /\ ~file.open

---------------------------------------------------------------------------
(* C14 *)

\* the constructor has ended on the example file
ExampleRead == disk.lines = ExampleFile /\ pc \in {"done", "failed"}

\* the values 1..12 in stream order
ExampleData == [i \in 0..11 |-> i + 1]

\* C14 as stated: the example file loads to shape (2,3,1,1), element
\* (0,0,0,0) is 1 and the last flat element is 12.
C14_ExampleShape_2_3_1_1 ==
    ExampleRead =>
        /\ Loaded
        /\ loaded.dim = Coord4(2, 3, 1, 1)
        /\ OpRead4D(loaded, 0, 0, 0, 0) = {1}
        /\ loaded.data[Size(loaded.data) - 1] = 12

\* C14 amended: the example file loads to the dimension vector (3,2,2,1)
\* (values per row, rows per block, blocks, slices) with the twelve values in
\* stream order; element (0,0,0,0) is 1 and the last flat element is 12.
C14_ExampleShape_3_2_2_1 ==
    ExampleRead =>
        /\ Loaded
        /\ loaded.dim = Coord4(3, 2, 2, 1)
        /\ loaded.data = ExampleData
        /\ OpRead4D(loaded, 0, 0, 0, 0) = {1}
        /\ loaded.data[Size(loaded.data) - 1] = 12

\* the example file has been loaded
C14_Witness == disk.lines = ExampleFile /\ Loaded /\ Size(loaded.data) = 12

---------------------------------------------------------------------------
(* C15 *)

\* the number of ",,,N" header lines among lines[i..]
RECURSIVE HeaderCount(_, _)
HeaderCount(lines, i) ==
    IF i > Len(lines) THEN 0
    ELSE (IF is_header_4d(lines[i]) THEN 1 ELSE 0) + HeaderCount(lines, i + 1)

\* the tokens of the data rows among lines[i..], in stream order, after acc
RECURSIVE StreamTokens(_, _, _)
StreamTokens(lines, i, acc) ==
    IF i > Len(lines) THEN acc
    ELSE IF is_header_4d(lines[i]) \/ is_header_3d(lines[i])
    THEN StreamTokens(lines, i + 1, acc)
    ELSE StreamTokens(lines, i + 1, Concat(acc, ParseLine(lines[i]).vals))

\* get_3d_slice is about to return after reading a ",,,N" header
StoppedOnHeader ==
    /\ ~file.fail
    /\ file.pos > 1
    /\ is_header_4d(disk.lines[file.pos - 1])

\* C15: after a successful Matrix4D text load of a non-empty stream the size
\* of the fourth axis is the number of ",,,N" lines of the stream and the
\* flat buffer is the concatenation of the tokens of all its data rows, in
\* stream order; get_3d_slice returns true exactly when it stopped on a
\* ",,,N" header and false exactly when the stream was exhausted.
C15_SlicesCountedAndConcatenated ==
    /\ (Loaded /\ ~EmptyFile) =>
          /\ loaded.dim[3] = HeaderCount(disk.lines, 1)
          /\ loaded.data = StreamTokens(disk.lines, 1, <<>>)
    /\ pc = "slice_end" =>
          /\ sl.found_4d_header <=> StoppedOnHeader
          /\ ~sl.found_4d_header <=> file.fail

---------------------------------------------------------------------------
(* C16 *)

\* str is n commas followed by an integer token: one digit or more, and
\* nothing else
CommasThenInteger(str, n) ==
    /\ Len(str) > n
    /\ \A k \in 1..n : str[k] = ","
    /\ \A k \in (n + 1)..Len(str) : IsDigit(str[k])

\* C16: a line is recognised as a rank-3 header iff it is exactly two commas
\* followed by an integer token, and as a rank-4 header iff it is exactly
\* three commas followed by an integer token; a line with the comma prefix
\* and no integer after it (",," or ",,abc") is no header.
C16_HeaderIsCommasThenInteger ==
    probe.asked =>
        /\ probe.h3 <=> CommasThenInteger(probe.str, 2)
        /\ probe.h4 <=> CommasThenInteger(probe.str, 3)

---------------------------------------------------------------------------
(* C17 *)

\* operator() at the in-range coordinates c stays inside the tables and _data
DefinedAt(m, c) == AccessDefined(m, c[0], c[1], c[2], c[3])

OffsetAt(m, c) == convert_to_offset(m, c[0], c[1], c[2], c[3])

\* C17: in a Matrix4D built from axis sizes >= 1 (dim1 = dim2 or not),
\* operator() maps distinct in-range coordinates to distinct offsets, each
\* below the number of elements and each found inside the offset tables; so
\* a write through operator() at in-range coordinates leaves the element at
\* every other in-range coordinate as it was.
C17_OffsetsInjective ==
    [][(m4.live /\ call.op = "Matrix4D" /\ ~HasZeroAxis(m4)) =>
          /\ \A c \in InRangeCoords4(m4) : DefinedAt(m4, c)
          /\ \A c, d \in InRangeCoords4(m4) :
                c # d => OffsetAt(m4, c) # OffsetAt(m4, d)
          /\ (CallStep("operator()") /\ call'.coord \in InRangeCoords4(m4)) =>
                \A d \in InRangeCoords4(m4) \ {call'.coord} :
                    OpRead4D(m4', d[0], d[1], d[2], d[3])
                       = OpRead4D(m4, d[0], d[1], d[2], d[3])
      ]_vars

---------------------------------------------------------------------------
(* C18 *)

\* the number of values on a line
TokenCount(line) == Size(ParseLine(line).vals)

\* the file is n >= 1 lines, none empty, all of numbers and all of the same
\* count of them
UniformRows ==
    /\ disk.sealed
    /\ Len(disk.lines) >= 1
    /\ \A k \in 1..Len(disk.lines) :
          /\ disk.lines[k] # EmptyLine
          /\ ~ParseLine(disk.lines[k]).bad
          /\ TokenCount(disk.lines[k]) = TokenCount(disk.lines[1])

\* C18: Matrix2D(file) on a file of n >= 1 non-empty lines of m values each
\* returns an object with axis sizes (m, n) holding the n*m values in stream
\* order, with or without a line terminator after the last line.
C18_Load2DKeepsEveryLine ==
    (UniformRows /\ (Loaded2D \/ Failed2D)) =>
        /\ Loaded2D
        /\ ld2.m.dim = Coord2(TokenCount(disk.lines[1]), Len(disk.lines))
        /\ ld2.m.data = StreamTokens(disk.lines, 1, <<>>)

---------------------------------------------------------------------------
(* C19 *)

\* m(row, col) through operator() is inside m's buffer
Defined2D(m, row, col) == Offset2(m, row, col) < Size(m.data)

\* C19: for m built by Matrix2D(nrow, ncol, v) and written through
\* operator(), square or not, t = transpose(m) has the axis sizes of m
\* exchanged, t(i,j) = m(j,i) at all in-range i, j with every access inside
\* the buffers, and transpose(t) has the dimensions and the elements of m.
C19_TransposeSwapsAxes ==
    /\ tr.t.live =>
          /\ tr.t.dim = Coord2(m2.dim[1], m2.dim[0])
          /\ \A i \in 0..(m2.dim[1] - 1), j \in 0..(m2.dim[0] - 1) :
                /\ Defined2D(tr.t, i, j)
                /\ Defined2D(m2, j, i)
                /\ OpRead2D(tr.t, i, j) = OpRead2D(m2, j, i)
    /\ tr.tt.live =>
          /\ tr.tt.dim = m2.dim
          /\ tr.tt.data = m2.data

---------------------------------------------------------------------------
(* C20 *)

\* C20: on every finite file Matrix4D(file) ends: once the file is open it
\* eventually returns or throws.  Every line read by get_3d_slice takes one
\* line of the file or finds the stream exhausted, the read position never passes the
\* end of the file, and the outer loop goes round again only after
\* get_3d_slice has taken a ",,,N" header.
C20_LoadTerminates ==
    /\ (pc = "first") ~> (pc \in {"done", "failed"})
    /\ [][/\ (pc = "slice" /\ pc' = "slice" /\ disk' = disk) =>
                file'.pos = file.pos + 1
          /\ (pc = "slice" /\ pc' = "slice_end") =>
                \/ file'.fail /\ file.pos > Len(disk.lines)
                \/ file'.pos = file.pos + 1 /\ is_header_4d(disk.lines[file.pos])
          /\ (pc = "slice_end" /\ pc' = "loop") => StoppedOnHeader
          /\ (pc = "slice_end" /\ pc' = "tail") => file.fail
          /\ file'.pos >= file.pos
          /\ file'.pos <= Len(disk'.lines) + 1
         ]_vars

\* the constructor has returned after reading two slices
C20_Witness ==
    /\ Loaded
    /\ Len(triples) >= 2
    /\ file.pos = Len(disk.lines) + 1

====
